---- MODULE Spec2Model ----
(***************************************************************************)
(* Hotel quote parser: the Next.js route app/api/process/route.ts (POST    *)
(* and transformMicroserviceResponse) and the result view of app/page.tsx. *)
(*                                                                         *)
(* JavaScript values are modelled by type.  A number is a natural number,  *)
(* with null and undefined as two negative sentinels; a string is a string,*)
(* with null and undefined as two reserved strings; a list is a sequence,  *)
(* with undefined as a reserved sequence.                                  *)
(***************************************************************************)
EXTENDS Integers, Sequences, FiniteSets, TLC

VARIABLES
    \* ---- POST handler (route.ts) ----
    pc,                   \* position of the handler
    formData,             \* the request's form fields
    microserviceFormData, \* the form forwarded to the microservice
    calls,                \* number of fetches issued to the microservice
    result,               \* the microservice's answer (MicroserviceResponse)
    response,             \* the NextResponse the handler returned
    \* ---- transformMicroserviceResponse and the result view ----
    microserviceData,     \* the payload handed to the transformation
    transformed,          \* the record it returned
    quoteData,            \* the record stored by the page (setQuoteData)
    \* ---- merge step of the extraction service ----
    proposalRecord,       \* the proposal-derived record
    emailRecord,          \* the email-derived record
    merged,               \* the merged record
    \* ---- the page (page.tsx, Home) ----
    page,                 \* the component's state besides quoteData
    \* ---- the persisted schema (setup_database.sql) ----
    db,                   \* the tables
    restored,             \* the record read back from the tables
    \* ---- concurrent executions of the POST handler (route.ts) ----
    handlers,             \* the local variables of each execution
    moduleScope,          \* the bindings of the module, shared by them
    \* ---- the startup script (start.sh) ----
    script                \* the shell running the script and its processes

vars == <<pc, formData, microserviceFormData, calls, result, response,
          microserviceData, transformed, quoteData,
          proposalRecord, emailRecord, merged, page, db, restored,
          handlers, moduleScope, script>>

routeVars == <<formData, microserviceFormData, calls, result, response>>
mergeVars == <<proposalRecord, emailRecord, merged>>
pageVars == <<page>>
storeVars == <<db, restored>>
concVars == <<handlers, moduleScope>>
scriptVars == <<script>>

-----------------------------------------------------------------------------
(* Bounds of the model *)

\* numeric inputs range over 0..MaxAmount
MaxAmount == 2

-----------------------------------------------------------------------------
(* JavaScript values *)

null == -1
undefined == -2
nullS == "<null>"
undefinedS == "<undefined>"
undefinedL == <<"<undefined>">>

\* x || d on numbers: undefined, null and 0 are falsy
OrNum(x, d) == IF x \in {undefined, null, 0} THEN d ELSE x
\* x ?? d on numbers: only undefined and null are replaced
Nullish(x, d) == IF x \in {undefined, null} THEN d ELSE x
\* x || d on strings: undefined, null and '' are falsy
OrStr(x, d) == IF x \in {undefinedS, nullS, ""} THEN d ELSE x
\* x || d on arrays and objects: every array (also []) is truthy
OrList(x, d) == IF x = undefinedL THEN d ELSE x
\* truthiness of a string / of a number
TruthyS(x) == x \notin {undefinedS, nullS, ""}
TruthyN(x) == x \notin {undefined, null, 0}

MoneyNames == {"total_quote", "guestroom_total", "meeting_room_total", "fnb_total"}
NumExtras == {"room_nights", "nightly_rate", "tax_rate_pct", "service_rate_pct",
              "fnb_minimum", "guestroom_base", "guestroom_taxes_fees",
              "estimated_fnb_gross"}
ExtrasKeys == NumExtras \cup {"proposal_url", "effective_value_offsets"}
Statuses == {"explicit", "derived", "conditional", "not_found"}

-----------------------------------------------------------------------------
(* Microservice payloads *)

\* A money object of the payload that is missing: x?.f is undefined for every f
MissingMoney ==
    [status |-> undefinedS, amount |-> undefined, value |-> undefined,
     currency |-> undefinedS, provenance_snippet |-> undefinedS,
     notes |-> undefinedS]

NoMoney == [f \in MoneyNames |-> MissingMoney]

\* An extras object with no key set
NoExtras ==
    [num |-> [k \in NumExtras |-> undefined], proposal_url |-> undefinedS,
     effective_value_offsets |-> undefinedL]

\* result.data when the microservice sent none
NoData ==
    [isObject |-> FALSE, hasTotals |-> FALSE, hasExtras |-> FALSE,
     totals |-> NoMoney, extras |-> NoExtras, flat |-> NoMoney,
     flatExtras |-> NoExtras, property |-> undefinedS, program |-> undefinedS,
     concessions |-> undefinedL, policies |-> undefinedS,
     sources |-> undefinedL]

-----------------------------------------------------------------------------
(* transformMicroserviceResponse (route.ts) *)

\* MoneyField with the currency passed through without its default
MoneyFieldNoCurrencyDefault(m) ==
    [status |-> OrStr(m.status, "not_found"),
     value |-> Nullish(m.amount, Nullish(m.value, null)),
     currency |-> m.currency,
     provenance_snippet |-> OrStr(m.provenance_snippet, nullS),
     notes |-> OrStr(m.notes, "")]

\* One MoneyField of the transformed record, from the payload's money object m
MoneyField(m) ==
    [status |-> OrStr(m.status, "not_found"),
     value |-> Nullish(m.amount, Nullish(m.value, null)),
     currency |-> OrStr(m.currency, "USD"),
     provenance_snippet |-> OrStr(m.provenance_snippet, nullS),
     notes |-> OrStr(m.notes, "")]

\* The extras block of the transformed record, from the payload's extras e
Extras(e) ==
    [num |-> [k \in NumExtras |-> OrNum(e.num[k], null)],
     proposal_url |-> OrStr(e.proposal_url, nullS),
     effective_value_offsets |-> OrList(e.effective_value_offsets, <<>>)]

isOldFormat(d) == d.hasTotals /\ d.hasExtras

\* Reading a property of undefined or null throws a TypeError
transformThrows(d) == ~d.isObject

transformMicroserviceResponse(d) ==
    LET money == IF isOldFormat(d) THEN d.totals ELSE d.flat
        extras == IF isOldFormat(d) THEN d.extras ELSE d.flatExtras
    IN  [total_quote |-> MoneyField(money["total_quote"]),
         guestroom_total |-> MoneyField(money["guestroom_total"]),
         meeting_room_total |-> MoneyField(money["meeting_room_total"]),
         fnb_total |-> MoneyField(money["fnb_total"]),
         extras |-> Extras(extras),
         property |-> OrStr(d.property, "{}"),
         program |-> OrStr(d.program, "{}"),
         concessions |-> OrList(d.concessions, <<>>),
         policies |-> OrStr(d.policies, "{}"),
         sources |-> OrList(d.sources, <<>>)]

\* The MoneyField called name of a record q
MoneyOf(q, name) ==
    CASE name = "total_quote" -> q.total_quote
      [] name = "guestroom_total" -> q.guestroom_total
      [] name = "meeting_room_total" -> q.meeting_room_total
      [] name = "fnb_total" -> q.fnb_total

-----------------------------------------------------------------------------
(* The result view (page.tsx); q is the stored quoteData, not null *)

getCalculatedTotalQuote(q) ==
    LET guestroom == OrNum(q.guestroom_total.value, 0)
        meeting == OrNum(q.meeting_room_total.value, 0)
        fnb == OrNum(q.extras.num["estimated_fnb_gross"],
                     OrNum(q.fnb_total.value, 0))
    IN  guestroom + meeting + fnb

getTotalQuoteSubtitle(q) ==
    IF q.total_quote.status = "not_found"
    THEN "Hotel did not provide an all-in total."
    ELSE nullS

\* The props of the Total Quote card
TotalQuoteCard(q) ==
    [value |-> getCalculatedTotalQuote(q),
     status |-> q.total_quote.status,
     subtitle |-> getTotalQuoteSubtitle(q),
     provenance |-> q.total_quote.provenance_snippet]

\* The components of the F&B breakdown; shown is FALSE when it returns null
getFnbBreakdown(q) ==
    LET fnb_minimum == OrNum(q.extras.num["fnb_minimum"], 0)
        service_rate_pct == OrNum(q.extras.num["service_rate_pct"], 0)
        tax_rate_pct == OrNum(q.extras.num["tax_rate_pct"], 0)
        estimated_fnb_gross == q.extras.num["estimated_fnb_gross"]
    IN  IF TruthyN(estimated_fnb_gross)
        THEN [shown |-> TRUE,
              fnb_minimum |-> fnb_minimum,
              service_charge |-> (fnb_minimum * service_rate_pct) \div 100,
              tax_on_service |->
                  (((fnb_minimum * service_rate_pct) \div 100) * tax_rate_pct) \div 100,
              tax_on_fnb |-> (fnb_minimum * tax_rate_pct) \div 100,
              total |-> estimated_fnb_gross]
        ELSE [shown |-> FALSE, fnb_minimum |-> 0, service_charge |-> 0,
              tax_on_service |-> 0, tax_on_fnb |-> 0, total |-> 0]

\* The conditions listed on the Meeting Room card
getMeetingRoomConditions(q) ==
    IF q.meeting_room_total.status = "conditional"
    THEN <<OrStr(q.meeting_room_total.provenance_snippet,
                 OrStr(q.meeting_room_total.notes,
                       "Conditional on F&B minimum"))>>
    ELSE <<>>

-----------------------------------------------------------------------------
(* Payloads the microservice may answer with.  The extraction is done by a *)
(* language model: any status string, any combination of keys may come.    *)

StatusInputs == {undefinedS, "", "explicit", "derived", "conditional",
                 "not_found", "estimated"}
AmountInputs == {undefined, null} \cup (0..MaxAmount)
Clause == "Meeting room rental waived if F&B minimum is met"

\* Currency, provenance snippet and notes of a money object: none, all, the
\* snippet alone, the notes alone
MetaInputs ==
    {<<undefinedS, undefinedS, undefinedS>>,
     <<"EUR", Clause, "per contract">>,
     <<undefinedS, Clause, "">>,
     <<"EUR", undefinedS, "per contract">>}

\* Every money object over the input sets
RichMoney ==
    {[status |-> s, amount |-> a, value |-> v, currency |-> meta[1],
      provenance_snippet |-> meta[2], notes |-> meta[3]] :
        s \in StatusInputs, a \in AmountInputs, v \in {undefined, MaxAmount},
        meta \in MetaInputs}

\* A plain explicit money object of amount n
SimpleMoney(n) ==
    [status |-> "explicit", amount |-> n, value |-> undefined,
     currency |-> "USD", provenance_snippet |-> undefinedS,
     notes |-> undefinedS]

\* A filled extras object: amounts in a unit that keeps the percentages exact
FullExtras ==
    [num |-> [k \in NumExtras |->
                 CASE k = "fnb_minimum" -> 100
                   [] k = "service_rate_pct" -> 20
                   [] k = "tax_rate_pct" -> 10
                   [] k = "estimated_fnb_gross" -> 134
                   [] OTHER -> 3],
     proposal_url |-> "https://hotel.example/proposal",
     effective_value_offsets |-> <<"comp rooms">>]

\* The values one extras key may carry
NumInputs == {undefined, null} \cup {100 * n : n \in 0..MaxAmount}

\* Money maps in which one field f ranges over RichMoney and the others are
\* all missing or all plain
MoneyInputs ==
    {[g \in MoneyNames |-> IF g = f THEN m
                           ELSE IF full THEN SimpleMoney(1) ELSE MissingMoney] :
        f \in MoneyNames, m \in RichMoney, full \in BOOLEAN}

\* Extras in which one key ranges over its values and the others are all
\* missing or all filled
ExtrasInputs ==
    LET base(full) == IF full THEN FullExtras ELSE NoExtras
    IN  {[base(full) EXCEPT !.num[k] = v] :
             k \in NumExtras, v \in NumInputs, full \in BOOLEAN}
        \cup {[base(full) EXCEPT !.proposal_url = u] :
                 u \in {undefinedS, nullS, ""}, full \in BOOLEAN}
        \cup {[base(full) EXCEPT !.effective_value_offsets = l] :
                 l \in {undefinedL, <<>>}, full \in BOOLEAN}

Shapes == {"old", "flat", "totalsOnly", "extrasOnly", "both"}

\* The payload of a shape: where the money objects and the extras sit, and
\* whether the common fields are there
Payload(shape, money, extras, common) ==
    [isObject |-> TRUE,
     hasTotals |-> shape \in {"old", "totalsOnly", "both"},
     hasExtras |-> shape \in {"old", "extrasOnly", "both"},
     totals |-> IF shape \in {"old", "totalsOnly", "both"} THEN money ELSE NoMoney,
     extras |-> IF shape \in {"old", "extrasOnly", "both"} THEN extras ELSE NoExtras,
     flat |-> CASE shape \in {"flat", "extrasOnly"} -> money
                [] shape = "both" -> [f \in MoneyNames |-> SimpleMoney(MaxAmount)]
                [] OTHER -> NoMoney,
     flatExtras |-> CASE shape \in {"flat", "totalsOnly"} -> extras
                      [] shape = "both" -> FullExtras
                      [] OTHER -> NoExtras,
     property |-> IF common THEN "{name: 'Grand Hotel'}" ELSE undefinedS,
     program |-> IF common THEN "{nights: 3}" ELSE undefinedS,
     concessions |-> IF common THEN <<"Waived resort fee">> ELSE undefinedL,
     policies |-> IF common THEN "{cancellation: '30 days'}" ELSE undefinedS,
     sources |-> IF common THEN <<"proposal", "email">> ELSE undefinedL]

TransformInputs ==
    {NoData}
    \cup {Payload(s, m, FullExtras, TRUE) : s \in Shapes, m \in MoneyInputs}
    \cup {Payload(s, m, e, c) : s \in Shapes,
                                m \in {NoMoney, [f \in MoneyNames |-> SimpleMoney(1)]},
                                e \in ExtrasInputs, c \in BOOLEAN}

-----------------------------------------------------------------------------
(* The transformation applied to a payload and the record shown by the page *)

IdleRoute ==
    /\ formData = <<>>
    /\ microserviceFormData = <<>>
    /\ calls = 0
    /\ result = <<>>
    /\ response = <<>>

IdleMerge ==
    /\ proposalRecord = <<>>
    /\ emailRecord = <<>>
    /\ merged = <<>>

IdlePage == page = <<>>

IdleStore ==
    /\ db = <<>>
    /\ restored = <<>>

IdleHandlers ==
    /\ handlers = <<>>
    /\ moduleScope = <<>>

IdleScript == script = <<>>

InitTransform ==
    /\ pc = "payload"
    /\ microserviceData \in {<<d>> : d \in TransformInputs}
    /\ transformed = <<>>
    /\ quoteData = <<>>
    /\ IdleRoute
    /\ IdleMerge
    /\ IdlePage
    /\ IdleStore
    /\ IdleScript
    /\ IdleHandlers

\* route.ts line 121: the transformation returns a record
Transform ==
    /\ pc = "payload"
    /\ ~transformThrows(microserviceData[1])
    /\ transformed' = <<transformMicroserviceResponse(microserviceData[1])>>
    /\ pc' = "transformed"
    /\ UNCHANGED <<microserviceData, quoteData, routeVars, mergeVars, pageVars, storeVars, concVars, scriptVars>>

\* route.ts line 146 on a payload that is no object
TransformFails ==
    /\ pc = "payload"
    /\ transformThrows(microserviceData[1])
    /\ pc' = "threw"
    /\ UNCHANGED <<microserviceData, transformed, quoteData, routeVars, mergeVars, pageVars, storeVars, concVars, scriptVars>>

\* page.tsx line 280: the page stores the record it received
SetQuoteData ==
    /\ pc = "transformed"
    /\ quoteData' = transformed
    /\ pc' = "shown"
    /\ UNCHANGED <<microserviceData, transformed, routeVars, mergeVars, pageVars, storeVars, concVars, scriptVars>>

NextTransform == Transform \/ TransformFails \/ SetQuoteData

SpecTransform == InitTransform /\ [][NextTransform]_vars

-----------------------------------------------------------------------------
(* The POST handler (route.ts) *)

\* formData.get(name) is null for an absent field.  A File is modelled by its
\* type; every File is truthy.
IsFile(x) == x # nullS

Forms ==
    [email_content : {nullS, "", "Rate is $192 per night"},
     email_file : {nullS, "text/html"},
     proposal_file : {nullS, "application/pdf"},
     proposal_url : {nullS, "", "https://hotel.example/proposal"},
     file : {nullS, "application/pdf", "text/html"}]

\* buildMicroserviceFormData with the legacy upload forwarded whatever else
\* the request carries
buildMicroserviceFormDataAlwaysLegacy(f) ==
    LET legacy == IsFile(f.file)
    IN  [email_content |->
             IF TruthyS(f.email_content) THEN <<f.email_content>> ELSE <<>>,
         email_file |->
             (IF IsFile(f.email_file) THEN <<f.email_file>> ELSE <<>>)
             \o (IF legacy /\ f.file # "application/pdf" THEN <<f.file>> ELSE <<>>),
         proposal_file |->
             (IF IsFile(f.proposal_file) THEN <<f.proposal_file>> ELSE <<>>)
             \o (IF legacy /\ f.file = "application/pdf" THEN <<f.file>> ELSE <<>>),
         proposal_url |->
             IF TruthyS(f.proposal_url) THEN <<f.proposal_url>> ELSE <<>>]

\* buildMicroserviceFormData without the legacy upload
buildMicroserviceFormDataNoLegacy(f) ==
    [email_content |->
         IF TruthyS(f.email_content) THEN <<f.email_content>> ELSE <<>>,
     email_file |-> IF IsFile(f.email_file) THEN <<f.email_file>> ELSE <<>>,
     proposal_file |->
         IF IsFile(f.proposal_file) THEN <<f.proposal_file>> ELSE <<>>,
     proposal_url |->
         IF TruthyS(f.proposal_url) THEN <<f.proposal_url>> ELSE <<>>]

\* Lines 25-78: the form forwarded to the microservice, each key with the
\* values appended to it
buildMicroserviceFormData(f) ==
    LET legacy == IsFile(f.file) /\ ~IsFile(f.proposal_file) /\ ~IsFile(f.email_file)
    IN  [email_content |->
             IF TruthyS(f.email_content) THEN <<f.email_content>> ELSE <<>>,
         email_file |->
             (IF IsFile(f.email_file) THEN <<f.email_file>> ELSE <<>>)
             \o (IF legacy /\ f.file # "application/pdf" THEN <<f.file>> ELSE <<>>),
         proposal_file |->
             (IF IsFile(f.proposal_file) THEN <<f.proposal_file>> ELSE <<>>)
             \o (IF legacy /\ f.file = "application/pdf" THEN <<f.file>> ELSE <<>>),
         proposal_url |->
             IF TruthyS(f.proposal_url) THEN <<f.proposal_url>> ELSE <<>>]

\* noContent with an empty text field counted as content
noContentEmptyCounts(f) ==
    /\ f.email_content = nullS
    /\ ~IsFile(f.email_file)
    /\ ~IsFile(f.proposal_file)
    /\ f.proposal_url = nullS
    /\ ~IsFile(f.file)

\* Line 80: the test that rejects the request
noContent(f) ==
    /\ ~TruthyS(f.email_content)
    /\ ~IsFile(f.email_file)
    /\ ~IsFile(f.proposal_file)
    /\ ~TruthyS(f.proposal_url)
    /\ ~IsFile(f.file)

\* NextResponse.json({ error }, { status }): JSON drops an undefined value
ErrorResponse(st, err) ==
    [status |-> st,
     keys |-> IF err = undefinedS THEN {} ELSE {"error"},
     success |-> FALSE, error |-> err, data |-> <<>>,
     sources |-> undefinedL, urls_found |-> undefinedL]

\* SuccessResponse listing both kinds of source whatever the microservice said
SuccessResponseBothSources(data, r) ==
    [status |-> 200,
     keys |-> {"success", "data", "sources", "urls_found"},
     success |-> TRUE, error |-> undefinedS,
     data |-> <<[data EXCEPT !.sources = <<"proposal", "email">>]>>,
     sources |-> <<"proposal", "email">>, urls_found |-> r.urls_found]

\* SuccessResponse without the URLs
SuccessResponseNoUrls(data, r) ==
    [status |-> 200,
     keys |-> {"success", "data"}
              \cup (IF r.sources = undefinedL THEN {} ELSE {"sources"}),
     success |-> TRUE, error |-> undefinedS, data |-> <<data>>,
     sources |-> r.sources, urls_found |-> undefinedL]

\* Lines 126-131: the success response
SuccessResponse(data, r) ==
    [status |-> 200,
     keys |-> {"success", "data"}
              \cup (IF r.sources = undefinedL THEN {} ELSE {"sources"})
              \cup (IF r.urls_found = undefinedL THEN {} ELSE {"urls_found"}),
     success |-> TRUE, error |-> undefinedS, data |-> <<data>>,
     sources |-> r.sources, urls_found |-> r.urls_found]

\* Payloads the microservice answers with in the handler's runs
RoutePayloads ==
    {NoData,
     Payload("flat", NoMoney, NoExtras, FALSE),
     Payload("flat", [f \in MoneyNames |-> SimpleMoney(1)], FullExtras, TRUE),
     Payload("old",
             [f \in MoneyNames |->
                 IF f = "total_quote"
                 THEN [MissingMoney EXCEPT !.status = "estimated", !.value = MaxAmount]
                 ELSE SimpleMoney(MaxAmount)],
             NoExtras, TRUE),
     Payload("totalsOnly",
             [f \in MoneyNames |->
                 IF f = "meeting_room_total"
                 THEN [MissingMoney EXCEPT !.status = "conditional", !.amount = 0]
                 ELSE MissingMoney],
             FullExtras, FALSE)}

\* The kinds of input the forwarded form mf carries
suppliedKinds(mf) ==
    (IF mf.email_content # <<>> \/ mf.email_file # <<>> THEN {"email"} ELSE {})
    \cup (IF mf.proposal_file # <<>> \/ mf.proposal_url # <<>>
          THEN {"proposal"} ELSE {})

\* The source lists the microservice reports for the form mf: the supplied
\* inputs it resolved, each once
SourceLists(mf) ==
    {l \in {<<>>, <<"email">>, <<"proposal">>, <<"proposal", "email">>} :
        {l[i] : i \in DOMAIN l} \subseteq suppliedKinds(mf)}

\* The URLs the microservice found in the inputs
UrlLists == {<<>>, <<"https://hotel.example/proposal">>}

\* The JSON bodies a 2xx answer of the microservice to the form mf may carry
\* (interface MicroserviceResponse: success, sources and urls_found are always
\* there; data is any)
Answers(mf) ==
    {[kind |-> "answer", success |-> FALSE, error |-> e, data |-> NoData,
      sources |-> <<>>, urls_found |-> <<>>] :
         e \in {undefinedS, nullS, "", "No content could be extracted"}}
    \cup {[kind |-> "answer", success |-> TRUE, error |-> nullS,
           data |-> IF d.sources = undefinedL THEN d ELSE [d EXCEPT !.sources = l],
           sources |-> l, urls_found |-> u] :
         d \in RoutePayloads, l \in SourceLists(mf), u \in UrlLists}

\* What became of the fetch when no JSON body was read
NoAnswer(kind) ==
    [kind |-> kind, success |-> FALSE, error |-> undefinedS, data |-> NoData,
     sources |-> undefinedL, urls_found |-> undefinedL]

InitRoute ==
    /\ pc = "start"
    /\ formData \in {<<>>} \cup {<<f>> : f \in Forms}
    /\ microserviceFormData = <<>>
    /\ calls = 0
    /\ result = <<>>
    /\ response = <<>>
    /\ microserviceData = <<>>
    /\ transformed = <<>>
    /\ quoteData = <<>>
    /\ IdleMerge
    /\ IdlePage
    /\ IdleStore
    /\ IdleScript
    /\ IdleHandlers

viewVars == <<microserviceData, transformed, quoteData>>

\* Line 18 on a body that is no form: request.formData() rejects, lines 133-138
ReadFormThrows ==
    /\ pc = "start"
    /\ formData = <<>>
    /\ response' = ErrorResponse(500, "Failed to process content")
    /\ pc' = "done"
    /\ UNCHANGED <<formData, microserviceFormData, calls, result, viewVars, mergeVars, pageVars, storeVars, concVars, scriptVars>>

\* Lines 18-83: the form is read and carries nothing: rejected
RejectNoContent ==
    /\ pc = "start"
    /\ formData # <<>>
    /\ noContent(formData[1])
    /\ microserviceFormData' = <<buildMicroserviceFormData(formData[1])>>
    /\ response' = ErrorResponse(400, "No content provided for extraction")
    /\ pc' = "done"
    /\ UNCHANGED <<formData, calls, result, viewVars, mergeVars, pageVars, storeVars, concVars, scriptVars>>

\* Lines 18-100: the form is read and the fetch is issued
CallMicroservice ==
    /\ pc = "start"
    /\ formData # <<>>
    /\ ~noContent(formData[1])
    /\ microserviceFormData' = <<buildMicroserviceFormData(formData[1])>>
    /\ calls' = calls + 1
    /\ pc' = "fetching"
    /\ UNCHANGED <<formData, result, response, viewVars, mergeVars, pageVars, storeVars, concVars, scriptVars>>

\* FetchThrows with the call issued again after a failure
FetchThrowsRetry ==
    /\ pc = "fetching"
    /\ calls <= MaxAmount
    /\ calls' = calls + 1
    /\ result' = <<NoAnswer("unreachable")>>
    /\ UNCHANGED <<pc, formData, microserviceFormData, response, viewVars, mergeVars, pageVars, storeVars, concVars, scriptVars>>

\* Line 97: the fetch rejects (microservice unreachable), lines 133-138
FetchThrows ==
    /\ pc = "fetching"
    /\ result' = <<NoAnswer("unreachable")>>
    /\ response' = ErrorResponse(500, "Failed to process content")
    /\ pc' = "done"
    /\ UNCHANGED <<formData, microserviceFormData, calls, viewVars, mergeVars, pageVars, storeVars, concVars, scriptVars>>

\* Lines 105-109: a non-2xx answer is thrown, lines 133-138
MicroserviceNotOk ==
    /\ pc = "fetching"
    /\ result' = <<NoAnswer("notOk")>>
    /\ response' = ErrorResponse(500, "Failed to process content")
    /\ pc' = "done"
    /\ UNCHANGED <<formData, microserviceFormData, calls, viewVars, mergeVars, pageVars, storeVars, concVars, scriptVars>>

\* Line 111: the 2xx body is no JSON: response.json() rejects, lines 133-138
JsonThrows ==
    /\ pc = "fetching"
    /\ result' = <<NoAnswer("noJson")>>
    /\ response' = ErrorResponse(500, "Failed to process content")
    /\ pc' = "done"
    /\ UNCHANGED <<formData, microserviceFormData, calls, viewVars, mergeVars, pageVars, storeVars, concVars, scriptVars>>

\* MicroserviceFailure answering without the status option
MicroserviceFailureStatusOk ==
    /\ pc = "fetching"
    /\ \E r \in Answers(microserviceFormData[1]) :
          /\ ~r.success
          /\ result' = <<r>>
          /\ response' = ErrorResponse(200, r.error)
    /\ pc' = "done"
    /\ UNCHANGED <<formData, microserviceFormData, calls, viewVars, mergeVars, pageVars, storeVars, concVars, scriptVars>>

\* Lines 114-117: the microservice answered success = false
MicroserviceFailure ==
    /\ pc = "fetching"
    /\ \E r \in Answers(microserviceFormData[1]) :
          /\ ~r.success
          /\ result' = <<r>>
          /\ response' = ErrorResponse(500, r.error)
    /\ pc' = "done"
    /\ UNCHANGED <<formData, microserviceFormData, calls, viewVars, mergeVars, pageVars, storeVars, concVars, scriptVars>>

\* Lines 119-131: the answer is transformed and returned
MicroserviceSuccess ==
    /\ pc = "fetching"
    /\ \E r \in Answers(microserviceFormData[1]) :
          /\ r.success
          /\ ~transformThrows(r.data)
          /\ result' = <<r>>
          /\ microserviceData' = <<r.data>>
          /\ transformed' = <<transformMicroserviceResponse(r.data)>>
          /\ response' = SuccessResponse(transformMicroserviceResponse(r.data), r)
    /\ pc' = "done"
    /\ UNCHANGED <<formData, microserviceFormData, calls, quoteData, mergeVars, pageVars, storeVars, concVars, scriptVars>>

\* Line 121 throws on an answer without data, lines 133-138
TransformThrows ==
    /\ pc = "fetching"
    /\ \E r \in Answers(microserviceFormData[1]) :
          /\ r.success
          /\ transformThrows(r.data)
          /\ result' = <<r>>
          /\ response' = ErrorResponse(500, "Failed to process content")
    /\ pc' = "done"
    /\ UNCHANGED <<formData, microserviceFormData, calls, viewVars, mergeVars, pageVars, storeVars, concVars, scriptVars>>

\* page.tsx lines 279-282: the page stores the record of a success response
ShowResults ==
    /\ pc = "done"
    /\ response.status = 200
    /\ quoteData' = response.data
    /\ pc' = "shown"
    /\ UNCHANGED <<formData, microserviceFormData, calls, result, response,
                   microserviceData, transformed, mergeVars, pageVars, storeVars, concVars, scriptVars>>

Next ==
    \/ ReadFormThrows
    \/ RejectNoContent
    \/ CallMicroservice
    \/ FetchThrows
    \/ MicroserviceNotOk
    \/ JsonThrows
    \/ MicroserviceFailure
    \/ MicroserviceSuccess
    \/ TransformThrows
    \/ ShowResults

Init == InitRoute

Spec == Init /\ [][Next]_vars

-----------------------------------------------------------------------------
(* Claims about the POST handler, checked under Spec *)

NoneOfFour(f) ==
    /\ f.email_content = nullS
    /\ f.email_file = nullS
    /\ f.proposal_file = nullS
    /\ f.proposal_url = nullS

\* C1 (as stated): every request in which none of email_content, email_file,
\* proposal_file, proposal_url is present is rejected with HTTP 400, whatever
\* else (the legacy file field included) it carries.
C1_RejectsWithoutFourFields ==
    (pc = "done" /\ formData # <<>> /\ NoneOfFour(formData[1]))
        => response.status = 400

\* C1 (amended): every request whose form is read and in which none of the
\* five fields email_content, email_file, proposal_file, proposal_url, file
\* carries a file or a non-empty text is rejected with HTTP 400 and the error
\* 'No content provided for extraction'.
C1_RejectsWithoutAnyField ==
    (/\ pc = "done"
     /\ formData # <<>>
     /\ formData[1].email_content \in {nullS, ""}
     /\ formData[1].proposal_url \in {nullS, ""}
     /\ formData[1].email_file = nullS
     /\ formData[1].proposal_file = nullS
     /\ formData[1].file = nullS)
        => /\ response.status = 400
           /\ response.error = "No content provided for extraction"

\* A request carrying only an empty email_content has been rejected
C1_Witness ==
    /\ pc = "done"
    /\ formData # <<>>
    /\ formData[1].email_content = ""
    /\ NoneOfFour([formData[1] EXCEPT !.email_content = nullS])
    /\ formData[1].file = nullS
    /\ response.status = 400

\* C2: the microservice is called at most once per request, and not at all in
\* a request rejected for want of input.
C2_AtMostOneCall ==
    /\ calls <= 1
    /\ (response # <<>> /\ response.status = 400) => calls = 0
    /\ (pc = "start") => calls = 0

\* A call failed and the handler answered without calling again
C2_Witness ==
    /\ pc = "done"
    /\ result # <<>>
    /\ result[1].kind = "unreachable"
    /\ response.status = 500
    /\ calls = 1

\* C3: every failure outcome returns a body with success: false and a
\* non-empty error string.
C3_FailureBodyStructured ==
    (pc = "done" /\ response.status # 200)
        => /\ "success" \in response.keys
           /\ response.success = FALSE
           /\ "error" \in response.keys
           /\ TruthyS(response.error)

-----------------------------------------------------------------------------
(* Claims about the transformed record and its view *)

\* C4: in every MoneyField of a transformed record, not_found implies a null
\* value and explicit, derived or conditional imply a value that is not null.
C4_StatusMatchesValue ==
    transformed # <<>> =>
        \A f \in MoneyNames :
            LET m == MoneyOf(transformed[1], f)
            IN  /\ m.status = "not_found" => m.value = null
                /\ m.status \in {"explicit", "derived", "conditional"}
                       => m.value # null

\* C5: in every MoneyField of the record of a success response the status is
\* one of explicit, derived, conditional, not_found.  Checked under Spec.
C5_StatusInEnum ==
    (pc = "done" /\ response.status = 200) =>
        \A f \in MoneyNames : MoneyOf(response.data[1], f).status \in Statuses

\* An addend of the displayed total: an absent one counts 0
Addend(x) == IF x = null THEN 0 ELSE x

\* The total the claim C7 expects on the card
ExpectedTotal(q) ==
    Addend(q.guestroom_total.value) + Addend(q.meeting_room_total.value)
    + (IF q.extras.num["estimated_fnb_gross"] # null
       THEN q.extras.num["estimated_fnb_gross"]
       ELSE Addend(q.fnb_total.value))

\* C7: when total_quote is not explicitly stated, the Total Quote card shows
\* guestroom_total + meeting_room_total + (estimated_fnb_gross, else
\* fnb_total), absent addends counted 0, with the status derived.
C7_DerivedTotalShown ==
    (quoteData # <<>> /\ quoteData[1].total_quote.status # "explicit") =>
        /\ TotalQuoteCard(quoteData[1]).value = ExpectedTotal(quoteData[1])
        /\ TotalQuoteCard(quoteData[1]).status = "derived"

\* The F&B gross of the claim C8, from the minimum and the two percentages
FnbGross(min, service, tax) ==
    LET service_charge == (min * service) \div 100
        tax_on_service == (service_charge * tax) \div 100
        tax_on_fnb == (min * tax) \div 100
    IN  min + service_charge + tax_on_service + tax_on_fnb

\* C8: when fnb_minimum, service_rate_pct and tax_rate_pct are known and the
\* payload has no gross F&B figure, the record's estimated_fnb_gross is
\* fnb_minimum + service_charge + tax_on_service + tax_on_fnb.
C8_FnbGrossEstimated ==
    (/\ transformed # <<>>
     /\ transformed[1].extras.num["fnb_minimum"] # null
     /\ transformed[1].extras.num["service_rate_pct"] # null
     /\ transformed[1].extras.num["tax_rate_pct"] # null
     /\ microserviceData[1].extras.num["estimated_fnb_gross"] \in {undefined, null}
     /\ microserviceData[1].flatExtras.num["estimated_fnb_gross"] \in {undefined, null})
        => transformed[1].extras.num["estimated_fnb_gross"]
               = FnbGross(transformed[1].extras.num["fnb_minimum"],
                          transformed[1].extras.num["service_rate_pct"],
                          transformed[1].extras.num["tax_rate_pct"])

\* C9: when meeting_room_total.status is conditional in a returned record,
\* its provenance_snippet or its notes is a non-empty string, and that text
\* (the snippet first) is the condition shown.
C9_ConditionCarried ==
    (quoteData # <<>> /\ quoteData[1].meeting_room_total.status = "conditional") =>
        LET m == quoteData[1].meeting_room_total
        IN  /\ TruthyS(m.provenance_snippet) \/ TruthyS(m.notes)
            /\ getMeetingRoomConditions(quoteData[1])
                   = <<IF TruthyS(m.provenance_snippet)
                       THEN m.provenance_snippet ELSE m.notes>>

\* The MoneyField the claim C10 expects for a money object that is missing
DefaultMoneyField ==
    [status |-> "not_found", value |-> null, currency |-> "USD",
     provenance_snippet |-> nullS, notes |-> ""]

\* C10: for a payload that is an object the transformation returns, without
\* error, a record whose four MoneyFields and ten extras keys are all set; a
\* MoneyField missing from the payload becomes the default MoneyField, and one
\* without a currency gets USD.
C10_RecordComplete ==
    /\ (microserviceData # <<>> /\ microserviceData[1].isObject) => pc # "threw"
    /\ transformed # <<>> =>
          LET q == transformed[1]
              d == microserviceData[1]
          IN  /\ \A f \in MoneyNames :
                    LET m == MoneyOf(q, f)
                    IN  /\ m.status # undefinedS
                        /\ m.value # undefined
                        /\ m.currency # undefinedS
                        /\ m.provenance_snippet # undefinedS
                        /\ m.notes # undefinedS
                        /\ (d.totals[f] = MissingMoney /\ d.flat[f] = MissingMoney)
                               => m = DefaultMoneyField
                        /\ (~TruthyS(d.totals[f].currency)
                            /\ ~TruthyS(d.flat[f].currency))
                               => m.currency = "USD"
              /\ \A k \in NumExtras : q.extras.num[k] # undefined
              /\ q.extras.proposal_url # undefinedS
              /\ q.extras.effective_value_offsets # undefinedL

\* A record was returned for a payload in which total_quote is missing and
\* guestroom_total is there with an amount and no currency
C10_Witness ==
    /\ transformed # <<>>
    /\ microserviceData[1].totals["total_quote"] = MissingMoney
    /\ microserviceData[1].flat["total_quote"] = MissingMoney
    /\ transformed[1].total_quote = DefaultMoneyField
    /\ \E f \in MoneyNames :
          /\ microserviceData[1].flat[f].amount = 1
          /\ microserviceData[1].flat[f].currency = undefinedS
          /\ MoneyOf(transformed[1], f).value = 1
          /\ MoneyOf(transformed[1], f).currency = "USD"

-----------------------------------------------------------------------------
(* The merge step of the extraction service.  Its code is not part of the  *)
(* sources at hand (the route only calls the service): it is modelled from *)
(* section 4.1 of the specification and from the README's "Proposal data   *)
(* takes precedence over email data".                                      *)

MergeExtras == {"room_nights"}

NotFoundField == [status |-> "not_found", value |-> null]

\* A record extracted from no input: every field not found
AbsentRecord ==
    [money |-> [f \in MoneyNames |-> NotFoundField],
     extras |-> [k \in MergeExtras |-> null]]

\* The records one extraction may produce: any set of fields found, the found
\* ones with one status and amount
ExtractedRecords ==
    {[money |-> [f \in MoneyNames |->
                    IF f \in found THEN [status |-> sv[1], value |-> sv[2]]
                    ELSE NotFoundField],
      extras |-> [k \in MergeExtras |-> IF k \in foundX THEN sv[2] ELSE null]] :
        found \in SUBSET MoneyNames, foundX \in SUBSET MergeExtras,
        sv \in {<<"explicit", a>> : a \in 1..MaxAmount}
               \cup {<<"derived", MaxAmount + 1>>}}

\* mergeField with the email's value taken first
mergeFieldEmailFirst(p, e) ==
    IF e.status # "not_found" THEN e
    ELSE IF p.status # "not_found" THEN p
    ELSE NotFoundField

\* One MoneyField merged: the proposal's when found, else the email's
mergeField(p, e) ==
    IF p.status # "not_found" THEN p
    ELSE IF e.status # "not_found" THEN e
    ELSE NotFoundField

\* One extras value merged
mergeExtra(p, e) == IF p # null THEN p ELSE e

\* The merged record of an optional proposal record and an optional email
\* record (<<>> when the input was not supplied)
mergeRecords(proposal, email) ==
    LET p == IF proposal = <<>> THEN AbsentRecord ELSE proposal[1]
        e == IF email = <<>> THEN AbsentRecord ELSE email[1]
    IN  [money |-> [f \in MoneyNames |-> mergeField(p.money[f], e.money[f])],
         extras |-> [k \in MergeExtras |-> mergeExtra(p.extras[k], e.extras[k])]]

InitMerge ==
    /\ pc = "extracted"
    /\ proposalRecord \in {<<>>} \cup {<<r>> : r \in ExtractedRecords}
    /\ emailRecord \in {<<>>} \cup {<<r>> : r \in ExtractedRecords}
    /\ merged = <<>>
    /\ microserviceData = <<>>
    /\ transformed = <<>>
    /\ quoteData = <<>>
    /\ IdleRoute
    /\ IdlePage
    /\ IdleStore
    /\ IdleScript
    /\ IdleHandlers

Merge ==
    /\ pc = "extracted"
    /\ merged' = <<mergeRecords(proposalRecord, emailRecord)>>
    /\ pc' = "merged"
    /\ UNCHANGED <<proposalRecord, emailRecord, routeVars, viewVars, pageVars,
                   storeVars, concVars, scriptVars>>

NextMerge == Merge

SpecMerge == InitMerge /\ [][NextMerge]_vars

-----------------------------------------------------------------------------
(* Claims about the outcomes of the POST handler, checked under Spec *)

\* A payload that is an object carrying none of the fields the transformation
\* reads (so is a payload that is a string or a number: every property of it
\* is undefined)
EmptyPayload(d) ==
    /\ d.isObject
    /\ ~d.hasTotals
    /\ ~d.hasExtras
    /\ d.flat = NoMoney
    /\ d.flatExtras = NoExtras
    /\ d.property = undefinedS
    /\ d.program = undefinedS
    /\ d.concessions = undefinedL
    /\ d.policies = undefinedS
    /\ d.sources = undefinedL

\* An extraction result the route cannot use
Unusable(d) == ~d.isObject \/ EmptyPayload(d)

\* C11: whenever the data of the microservice's answer is missing, no object
\* or an object with none of the expected fields, the handler signals a
\* failure; it never answers success = true with a record filled from
\* defaults.
C11_MalformedSignalsFailure ==
    (/\ pc = "done"
     /\ result # <<>>
     /\ result[1].kind = "answer"
     /\ result[1].success
     /\ Unusable(result[1].data))
        => /\ response.status # 200
           /\ response.success = FALSE

\* An email input / a proposal input is supplied in the request f; the legacy
\* upload counts by its type (lines 64-78)
EmailSupplied(f) ==
    \/ TruthyS(f.email_content)
    \/ IsFile(f.email_file)
    \/ (IsFile(f.file) /\ f.file # "application/pdf")

ProposalSupplied(f) ==
    \/ IsFile(f.proposal_file)
    \/ TruthyS(f.proposal_url)
    \/ (IsFile(f.file) /\ f.file = "application/pdf")

OnlySupplied(l, f) ==
    \A i \in DOMAIN l :
        /\ l[i] \in {"email", "proposal"}
        /\ l[i] = "email" => EmailSupplied(f)
        /\ l[i] = "proposal" => ProposalSupplied(f)

SuccessfulAnswer == pc = "done" /\ result # <<>> /\ result[1].kind = "answer"
                    /\ result[1].success

-----------------------------------------------------------------------------
(* Claims about the two payload formats, checked under SpecTransform *)

\* amount when it is neither null nor undefined, otherwise value, otherwise null
AmountElseValue(m) ==
    IF m.amount \notin {undefined, null} THEN m.amount
    ELSE IF m.value \notin {undefined, null} THEN m.value
    ELSE null

\* C18: for every payload that carries a nested totals object each output
\* MoneyField is taken from the entry of totals, for every payload without
\* totals from the top-level field of the same name; in both cases value is
\* amount when amount is not null/undefined (0 included), otherwise value,
\* otherwise null.
C18_BothFormats ==
    transformed # <<>> =>
        LET d == microserviceData[1]
            from == IF d.hasTotals THEN d.totals ELSE d.flat
        IN  \A f \in MoneyNames :
                /\ MoneyOf(transformed[1], f) = MoneyField(from[f])
                /\ MoneyOf(transformed[1], f).value = AmountElseValue(from[f])

-----------------------------------------------------------------------------
(* Claims about what the handler forwards and when it answers success,     *)
(* checked under Spec                                                      *)

\* The number of files the request carries under a name of its own
OwnFiles(f) ==
    (IF IsFile(f.email_file) THEN 1 ELSE 0)
    + (IF IsFile(f.proposal_file) THEN 1 ELSE 0)

\* The forwarded form mf carries a file the request f did not name
\* email_file or proposal_file: the legacy upload
LegacyForwarded(f, mf) ==
    Len(mf.email_file) + Len(mf.proposal_file) > OwnFiles(f)

\* C19: the legacy file is forwarded if and only if the request carries it
\* and neither email_file nor proposal_file; it is sent as proposal_file when
\* its type is application/pdf and as email_file otherwise; the forwarded form
\* never has more than one proposal_file nor more than one email_file.
C19_LegacyRouting ==
    microserviceFormData # <<>> =>
        LET f == formData[1]
            mf == microserviceFormData[1]
        IN  /\ LegacyForwarded(f, mf)
                  <=> (IsFile(f.file) /\ ~IsFile(f.email_file)
                       /\ ~IsFile(f.proposal_file))
            /\ (LegacyForwarded(f, mf) /\ f.file = "application/pdf")
                  => (mf.proposal_file = <<f.file>> /\ mf.email_file = <<>>)
            /\ (LegacyForwarded(f, mf) /\ f.file # "application/pdf")
                  => (mf.email_file = <<f.file>> /\ mf.proposal_file = <<>>)
            /\ ~LegacyForwarded(f, mf)
                  => /\ mf.email_file =
                          IF IsFile(f.email_file) THEN <<f.email_file>> ELSE <<>>
                     /\ mf.proposal_file =
                          IF IsFile(f.proposal_file) THEN <<f.proposal_file>>
                          ELSE <<>>
            /\ Len(mf.proposal_file) <= 1
            /\ Len(mf.email_file) <= 1

\* A request with a legacy HTML upload alone was forwarded with it as
\* email_file
C19_Witness ==
    /\ pc = "fetching"
    /\ formData[1].file = "text/html"
    /\ OwnFiles(formData[1]) = 0
    /\ microserviceFormData[1].email_file = <<"text/html">>
    /\ microserviceFormData[1].proposal_file = <<>>

\* The call threw, was answered with a non-2xx status or with a body that is
\* no JSON, or was answered success = false
CallFailed ==
    /\ result # <<>>
    /\ \/ result[1].kind \in {"unreachable", "notOk", "noJson"}
       \/ (result[1].kind = "answer" /\ ~result[1].success)

\* C20: a success response is produced only after a 2xx answer with
\* success = true; if the call throws, returns a non-2xx status or returns
\* success = false, the handler responds with 500, never with success = true,
\* and the transformation is not applied.
C20_SuccessOnlyAfterSuccess ==
    /\ (pc = "done" /\ CallFailed)
          => /\ response.status = 500
             /\ response.success # TRUE
             /\ "success" \notin response.keys
             /\ response.data = <<>>
             /\ microserviceData = <<>>
             /\ transformed = <<>>
    /\ (response # <<>> /\ (response.status = 200 \/ response.success = TRUE))
          => /\ result # <<>>
             /\ result[1].kind = "answer"
             /\ result[1].success
             /\ calls = 1

\* The microservice answered success = false with an error text and the
\* handler answered 500 with it
C20_Witness ==
    /\ pc = "done"
    /\ result # <<>>
    /\ result[1].kind = "answer"
    /\ ~result[1].success
    /\ result[1].error = "No content could be extracted"
    /\ response.status = 500
    /\ response.error = "No content could be extracted"
    /\ transformed = <<>>

-----------------------------------------------------------------------------
(* Two concurrent executions of the POST handler (route.ts).  An execution *)
(* runs alone between two awaits (lines 18, 97, 111); the executions       *)
(* interleave at the awaits.                                               *)

Reqs == {"A", "B"}

\* Line 4: the only binding of the module besides the imports, a const
ModuleBindings == [MICROSERVICE_URL |-> "http://localhost:8000"]

\* The requests of the concurrent runs
ConcurrentForms ==
    {f \in Forms :
        /\ f.email_content # ""
        /\ f.proposal_url # ""
        /\ f.file # "text/html"
        /\ f.email_file = nullS
        /\ IsFile(f.file) => (f.email_content = nullS /\ f.proposal_url = nullS)}

\* What the fetch of the form mf may come to: it throws, is answered with a
\* non-2xx status, or is answered with a body of Answers(mf)
ConcurrentOutcomes(mf) ==
    {NoAnswer("unreachable"), NoAnswer("notOk")}
    \cup {a \in Answers(mf) :
            /\ a.urls_found = <<>>
            /\ a.error \in {nullS, "No content could be extracted"}
            /\ (a.success => (~a.data.isObject \/ a.data.flat # NoMoney))}

\* Lines 105-138: the response to the outcome res of the fetch
respondTo(res) ==
    IF res.kind # "answer"
    THEN ErrorResponse(500, "Failed to process content")
    ELSE IF ~res.success
    THEN ErrorResponse(500, res.error)
    ELSE IF transformThrows(res.data)
    THEN ErrorResponse(500, "Failed to process content")
    ELSE SuccessResponse(transformMicroserviceResponse(res.data), res)

\* The locals of an execution that has not read its request yet
NewHandler(fd) ==
    [pc |-> "start", formData |-> fd, microserviceFormData |-> <<>>,
     url |-> "", result |-> <<>>, response |-> <<>>]

InitConcurrent ==
    /\ handlers \in [Reqs -> {NewHandler(fd) :
                                fd \in {<<>>} \cup {<<f>> : f \in ConcurrentForms}}]
    /\ moduleScope = ModuleBindings
    /\ pc = "concurrent"
    /\ microserviceData = <<>>
    /\ transformed = <<>>
    /\ quoteData = <<>>
    /\ IdleRoute
    /\ IdleMerge
    /\ IdlePage
    /\ IdleStore
    /\ IdleScript

\* Everything but the executions and the module's bindings
restOfConcurrent ==
    <<pc, routeVars, viewVars, mergeVars, pageVars, storeVars, scriptVars>>

\* Line 18 on a body that is no form, lines 133-138
HReadFormThrows(h) ==
    /\ handlers[h].pc = "start"
    /\ handlers[h].formData = <<>>
    /\ handlers' = [handlers EXCEPT
                      ![h].response = ErrorResponse(500, "Failed to process content"),
                      ![h].pc = "done"]
    /\ UNCHANGED <<moduleScope, restOfConcurrent>>

\* Lines 18-83: the form carries nothing
HRejectNoContent(h) ==
    /\ handlers[h].pc = "start"
    /\ handlers[h].formData # <<>>
    /\ noContent(handlers[h].formData[1])
    /\ handlers' = [handlers EXCEPT
                      ![h].microserviceFormData =
                          <<buildMicroserviceFormData(handlers[h].formData[1])>>,
                      ![h].response =
                          ErrorResponse(400, "No content provided for extraction"),
                      ![h].pc = "done"]
    /\ UNCHANGED <<moduleScope, restOfConcurrent>>

\* HCallMicroservice with the forwarded form kept in a binding of the module
\* and appended to by every execution
HCallMicroserviceModuleForm(h) ==
    /\ handlers[h].pc = "start"
    /\ handlers[h].formData # <<>>
    /\ ~noContent(handlers[h].formData[1])
    /\ LET own == buildMicroserviceFormData(handlers[h].formData[1])
           all == IF "microserviceFormData" \in DOMAIN moduleScope
                  THEN [k \in DOMAIN own |->
                           moduleScope.microserviceFormData[k] \o own[k]]
                  ELSE own
       IN  /\ moduleScope' = [MICROSERVICE_URL |-> moduleScope.MICROSERVICE_URL,
                              microserviceFormData |-> all]
           /\ handlers' = [handlers EXCEPT
                             ![h].microserviceFormData = <<all>>,
                             ![h].url = moduleScope.MICROSERVICE_URL,
                             ![h].pc = "fetching"]
    /\ UNCHANGED restOfConcurrent

\* Lines 18-100: the form is read, the form to forward is built in a local
\* and the fetch is issued to MICROSERVICE_URL
HCallMicroservice(h) ==
    /\ handlers[h].pc = "start"
    /\ handlers[h].formData # <<>>
    /\ ~noContent(handlers[h].formData[1])
    /\ handlers' = [handlers EXCEPT
                      ![h].microserviceFormData =
                          <<buildMicroserviceFormData(handlers[h].formData[1])>>,
                      ![h].url = moduleScope.MICROSERVICE_URL,
                      ![h].pc = "fetching"]
    /\ UNCHANGED <<moduleScope, restOfConcurrent>>

\* Line 97: the fetch of h settles, with an outcome for the form it sent
HFetchSettles(h) ==
    /\ handlers[h].pc = "fetching"
    /\ \E res \in ConcurrentOutcomes(handlers[h].microserviceFormData[1]) :
          handlers' = [handlers EXCEPT ![h].result = <<res>>,
                                       ![h].pc = "settled"]
    /\ UNCHANGED <<moduleScope, restOfConcurrent>>

\* Lines 105-138: the execution resumes and answers
HRespond(h) ==
    /\ handlers[h].pc = "settled"
    /\ handlers' = [handlers EXCEPT
                      ![h].response = respondTo(handlers[h].result[1]),
                      ![h].pc = "done"]
    /\ UNCHANGED <<moduleScope, restOfConcurrent>>

NextConcurrent ==
    \E h \in Reqs :
        \/ HReadFormThrows(h)
        \/ HRejectNoContent(h)
        \/ HCallMicroservice(h)
        \/ HFetchSettles(h)
        \/ HRespond(h)

SpecConcurrent == InitConcurrent /\ [][NextConcurrent]_vars

\* The response the handler gives to the request fd when its fetch comes to
\* res
ExpectedResponse(fd, res) ==
    IF fd = <<>>
    THEN ErrorResponse(500, "Failed to process content")
    ELSE IF noContent(fd[1])
    THEN ErrorResponse(400, "No content provided for extraction")
    ELSE respondTo(res[1])

\* Everything the execution h holds comes from its own request and from the
\* outcome of its own call
OwnState(h) ==
    LET x == handlers[h]
    IN  /\ x.microserviceFormData # <<>>
              => x.microserviceFormData =
                     <<buildMicroserviceFormData(x.formData[1])>>
        /\ x.result # <<>>
              => x.result[1] \in
                     ConcurrentOutcomes(buildMicroserviceFormData(x.formData[1]))
        /\ x.pc = "done"
              => /\ x.response = ExpectedResponse(x.formData, x.result)
                 /\ x.response.status = 200
                       => OnlySupplied(x.response.sources, x.formData[1])

\* C14: for every interleaving of two concurrent executions of the handler,
\* each response depends only on the request's own form and on the answer to
\* its own call, and no step of one execution writes state the other reads:
\* a step changes the locals of one execution only and never a binding of
\* the module.
C14_RequestsIndependent ==
    /\ [](\A h \in Reqs : OwnState(h))
    /\ [][/\ moduleScope' = moduleScope
          /\ \E h \in Reqs :
                \A g \in Reqs \ {h} : handlers'[g] = handlers[g]]_vars

\* B was answered from its proposal while the call of A, made for its email
\* text, had settled and A had not resumed
C14_Witness ==
    /\ handlers # <<>>
    /\ handlers["A"].pc = "settled"
    /\ handlers["A"].result[1].sources = <<"email">>
    /\ ~ProposalSupplied(handlers["A"].formData[1])
    /\ handlers["B"].pc = "done"
    /\ handlers["B"].response.status = 200
    /\ handlers["B"].response.sources = <<"proposal">>
    /\ ~EmailSupplied(handlers["B"].formData[1])

-----------------------------------------------------------------------------
(* The page (page.tsx, Home): its state, the submission and the operations *)
(* on the stored record                                                    *)

\* page.tsx lines 312-321; shown is FALSE when it returns null
getGuestroomBreakdown(q) ==
    LET room_nights == q.extras.num["room_nights"]
        nightly_rate == q.extras.num["nightly_rate"]
        guestroom_taxes_fees == q.extras.num["guestroom_taxes_fees"]
    IN  IF TruthyN(room_nights) /\ TruthyN(nightly_rate)
        THEN [shown |-> TRUE, room_nights |-> room_nights,
              nightly_rate |-> nightly_rate,
              base |-> room_nights * nightly_rate,
              taxes |-> OrNum(guestroom_taxes_fees, 0)]
        ELSE [shown |-> FALSE, room_nights |-> 0, nightly_rate |-> 0,
              base |-> 0, taxes |-> 0]

\* What the result area shows of the stored record qd (lines 487-537)
ViewOf(qd) ==
    IF qd = <<>> THEN <<>>
    ELSE <<[total |-> TotalQuoteCard(qd[1]),
            guestroom |-> getGuestroomBreakdown(qd[1]),
            fnb |-> getFnbBreakdown(qd[1]),
            conditions |-> getMeetingRoomConditions(qd[1])]>>

\* Lines 203-208: a cell of the Value column, value || ''
CsvValue(v) == IF TruthyN(v) THEN ToString(v) ELSE ""

\* Lines 201-208: the rows of the CSV
CsvRows(q) ==
    <<<<"Field", "Value", "Status", "Notes">>,
      <<"Total Quote", CsvValue(q.total_quote.value), q.total_quote.status,
        q.total_quote.notes>>,
      <<"Guestroom Total", CsvValue(q.guestroom_total.value),
        q.guestroom_total.status, q.guestroom_total.notes>>,
      <<"Meeting Room Total", CsvValue(q.meeting_room_total.value),
        q.meeting_room_total.status, q.meeting_room_total.notes>>,
      <<"F&B Total", CsvValue(q.fnb_total.value), q.fnb_total.status,
        q.fnb_total.notes>>>>

\* The bodies /api/process answers the page with
PageResponses ==
    {SuccessResponse(transformMicroserviceResponse(d),
                     [sources |-> l, urls_found |-> <<>>]) :
        d \in {Payload("flat", NoMoney, NoExtras, FALSE),
               Payload("flat", [f \in MoneyNames |-> SimpleMoney(1)],
                       FullExtras, TRUE)},
        l \in {<<>>, <<"email">>}}
    \cup {ErrorResponse(500, e) : e \in {undefinedS, "Failed to process content"}}

\* Lines 220-230: the state after the first render
InitPage ==
    /\ quoteData = <<>>
    /\ page = [op |-> "mount", isLoading |-> FALSE, error |-> nullS,
               urls |-> <<>>, sources |-> <<>>,
               emailContent |-> "", emailFile |-> nullS,
               proposalFile |-> nullS, proposalUrl |-> "",
               view |-> <<>>, clipboard |-> <<>>, csv |-> <<>>,
               sent |-> <<>>, inFlight |-> 0]
    /\ pc = "page"
    /\ microserviceData = <<>>
    /\ transformed = <<>>
    /\ IdleRoute
    /\ IdleMerge
    /\ IdleStore
    /\ IdleScript
    /\ IdleHandlers

\* Everything but the page and the stored record
restOfPage ==
    <<pc, microserviceData, transformed, routeVars, mergeVars, storeVars, concVars, scriptVars>>

\* The values the four inputs take
InputValues(k) ==
    CASE k = "emailContent" -> {"", "   ", "Rate is $192 per night"}
      [] k = "emailFile" -> {nullS, "text/html"}
      [] k = "proposalFile" -> {nullS, "application/pdf"}
      [] k = "proposalUrl" -> {"", "https://hotel.example/proposal"}

\* Lines 392, 400, 430, 437: the onChange of an input
SetInput ==
    /\ page.view = ViewOf(quoteData)
    /\ \E k \in {"emailContent", "emailFile", "proposalFile", "proposalUrl"} :
          \E v \in InputValues(k) \ {page[k]} :
              page' = [page EXCEPT ![k] = v, !.op = "input"]
    /\ UNCHANGED <<quoteData, restOfPage>>

\* s.trim() is empty for '' and for a text of whitespace only
Trimmed(s) == IF s = "   " THEN "" ELSE s

\* Lines 246-267: the form handleSubmit sends; a key that is not appended is
\* null to formData.get
submittedForm(p) ==
    [email_content |-> IF Trimmed(p.emailContent) # "" THEN p.emailContent
                       ELSE nullS,
     email_file |-> p.emailFile,
     proposal_file |-> p.proposalFile,
     proposal_url |-> IF Trimmed(p.proposalUrl) # "" THEN p.proposalUrl
                      ELSE nullS,
     file |-> nullS]

\* HandleSubmit behind a button that stays enabled while loading
HandleSubmitWhileLoading ==
    /\ page.view = ViewOf(quoteData)
    /\ page.inFlight < 2
    /\ \/ page.emailContent # ""
       \/ page.emailFile # nullS
       \/ page.proposalFile # nullS
       \/ page.proposalUrl # ""
    /\ quoteData' = <<>>
    /\ page' = [page EXCEPT !.op = "submit", !.isLoading = TRUE,
                            !.error = nullS, !.urls = <<>>, !.sources = <<>>,
                            !.sent = <<submittedForm(page)>>,
                            !.inFlight = @ + 1]
    /\ UNCHANGED restOfPage

\* Lines 232-273, behind the button of line 460: the submission clears the
\* results and sends the request
HandleSubmit ==
    /\ page.view = ViewOf(quoteData)
    /\ ~page.isLoading
    /\ \/ page.emailContent # ""
       \/ page.emailFile # nullS
       \/ page.proposalFile # nullS
       \/ page.proposalUrl # ""
    /\ quoteData' = <<>>
    /\ page' = [page EXCEPT !.op = "submit", !.isLoading = TRUE,
                            !.error = nullS, !.urls = <<>>, !.sources = <<>>,
                            !.sent = <<submittedForm(page)>>,
                            !.inFlight = @ + 1]
    /\ UNCHANGED restOfPage

\* Lines 279-282 and 290: a success response is stored
ResponseSuccess ==
    /\ page.inFlight > 0
    /\ \E resp \in PageResponses :
          /\ resp.success
          /\ quoteData' = resp.data
          /\ page' = [page EXCEPT !.op = "response", !.isLoading = FALSE,
                                  !.inFlight = @ - 1,
                                  !.urls = OrList(resp.urls_found, <<>>),
                                  !.sources = OrList(resp.sources, <<>>)]
    /\ UNCHANGED restOfPage

\* Lines 283-285 and 290: a failure response sets the error
ResponseFailure ==
    /\ page.inFlight > 0
    /\ \E resp \in PageResponses :
          /\ ~resp.success
          /\ page' = [page EXCEPT !.op = "response", !.isLoading = FALSE,
                                  !.inFlight = @ - 1,
                                  !.error = OrStr(resp.error,
                                                  "Failed to process request")]
    /\ UNCHANGED <<quoteData, restOfPage>>

\* PageFetchThrows without the finally block
PageFetchThrowsNoFinally ==
    /\ page.inFlight > 0
    /\ page' = [page EXCEPT !.op = "response", !.inFlight = @ - 1,
                            !.error = "Failed to fetch"]
    /\ UNCHANGED <<quoteData, restOfPage>>

\* Lines 286-290: the fetch or response.json() rejects
PageFetchThrows ==
    /\ page.inFlight > 0
    /\ page' = [page EXCEPT !.op = "response", !.isLoading = FALSE,
                                  !.inFlight = @ - 1,
                            !.error = "Failed to fetch"]
    /\ UNCHANGED <<quoteData, restOfPage>>

\* Render with the computed total written into the record
RenderStoresTotal ==
    /\ page.view # ViewOf(quoteData)
    /\ page' = [page EXCEPT !.op = "render", !.view = ViewOf(quoteData)]
    /\ quoteData' =
           IF quoteData = <<>> THEN <<>>
           ELSE <<[quoteData[1] EXCEPT
                      !.total_quote.value = getCalculatedTotalQuote(quoteData[1])]>>
    /\ UNCHANGED restOfPage

\* Lines 294-342 and 487-537: the render after a change of state computes the
\* total, the breakdowns and the conditions
Render ==
    /\ page.view # ViewOf(quoteData)
    /\ page' = [page EXCEPT !.op = "render", !.view = ViewOf(quoteData)]
    /\ UNCHANGED <<quoteData, restOfPage>>

\* Line 357: Copy JSON
CopyJSON ==
    /\ quoteData # <<>>
    /\ page.view = ViewOf(quoteData)
    /\ page' = [page EXCEPT !.op = "copy", !.clipboard = <<"json", quoteData[1]>>]
    /\ UNCHANGED <<quoteData, restOfPage>>

\* Line 364: Download CSV
DownloadCSV ==
    /\ quoteData # <<>>
    /\ page.view = ViewOf(quoteData)
    /\ page' = [page EXCEPT !.op = "csv", !.csv = CsvRows(quoteData[1])]
    /\ UNCHANGED <<quoteData, restOfPage>>

NextPage ==
    \/ SetInput
    \/ HandleSubmit
    \/ ResponseSuccess
    \/ ResponseFailure
    \/ PageFetchThrows
    \/ Render
    \/ CopyJSON
    \/ DownloadCSV

SpecPage == InitPage /\ [][NextPage]_vars

\* C15: a stored record is never mutated: computing the displayed total, the
\* breakdowns and the meeting-room conditions, Copy JSON, Download CSV and
\* editing the inputs leave it as it is; it changes only by being cleared by
\* a submission or set whole by the response to one.
C15_RecordNeverMutated ==
    [][/\ page'.op \in {"render", "copy", "csv", "input"}
             => quoteData' = quoteData
       /\ quoteData' # quoteData
             => \/ (page'.op = "submit" /\ quoteData' = <<>>)
                \/ (page'.op = "response" /\ page.isLoading /\ quoteData = <<>>
                    /\ \E resp \in PageResponses : quoteData' = resp.data)]_vars

\* The record of a response was rendered, copied and downloaded and is still
\* the record of the response
C15_Witness ==
    /\ page # <<>>
    /\ page.op = "csv"
    /\ quoteData # <<>>
    /\ quoteData[1].total_quote.status = "explicit"
    /\ \E resp \in PageResponses : quoteData = resp.data
    /\ page.view = ViewOf(quoteData)
    /\ page.clipboard = <<"json", quoteData[1]>>
    /\ page.csv = CsvRows(quoteData[1])

-----------------------------------------------------------------------------
(* The persisted schema (setup_database.sql): a record written into the    *)
(* tables and read back                                                    *)

\* The records that are stored
PersistRecords ==
    {transformMicroserviceResponse(Payload("flat", m, e, c)) :
        m \in {NoMoney, [f \in MoneyNames |-> SimpleMoney(1)]},
        e \in ExtrasInputs, c \in BOOLEAN}

\* The rows a record q makes, a column for every field the schema has one
\* for: hotel_quote_requests (lines 8-23), hotel_quote_data (26-70),
\* hotel_properties (73-86), hotel_concessions (89-97), hotel_policies
\* (100-107).  No table has a column for program.
persist(id, q) ==
    [hotel_quote_requests |-> <<[id |-> id, sources_used |-> q.sources]>>,
     hotel_quote_data |->
        <<[request_id |-> id,
           money |-> [f \in MoneyNames |->
                        [status |-> MoneyOf(q, f).status,
                         value |-> MoneyOf(q, f).value,
                         currency |-> MoneyOf(q, f).currency,
                         provenance |-> MoneyOf(q, f).provenance_snippet,
                         notes |-> MoneyOf(q, f).notes]],
           num |-> q.extras.num,
           proposal_url |-> q.extras.proposal_url,
           effective_value_offsets |-> q.extras.effective_value_offsets]>>,
     hotel_properties |-> <<[request_id |-> id, property |-> q.property]>>,
     hotel_concessions |->
        [i \in DOMAIN q.concessions |->
            [request_id |-> id, concession_text |-> q.concessions[i]]],
     hotel_policies |-> <<[request_id |-> id, policy_details |-> q.policies]>>]

\* One MoneyField from its five columns
moneyFromColumns(c) ==
    [status |-> c.status, value |-> c.value, currency |-> c.currency,
     provenance_snippet |-> c.provenance, notes |-> c.notes]

\* The record read back from the rows of request id; a field without a
\* column gets its default
reconstruct(id, tables) ==
    LET data == tables.hotel_quote_data[1]
    IN  [total_quote |-> moneyFromColumns(data.money["total_quote"]),
         guestroom_total |-> moneyFromColumns(data.money["guestroom_total"]),
         meeting_room_total |-> moneyFromColumns(data.money["meeting_room_total"]),
         fnb_total |-> moneyFromColumns(data.money["fnb_total"]),
         extras |-> [num |-> data.num,
                     proposal_url |-> data.proposal_url,
                     effective_value_offsets |-> data.effective_value_offsets],
         property |-> tables.hotel_properties[1].property,
         program |-> "{}",
         concessions |->
            [i \in DOMAIN tables.hotel_concessions |->
                tables.hotel_concessions[i].concession_text],
         policies |-> tables.hotel_policies[1].policy_details,
         sources |-> tables.hotel_quote_requests[1].sources_used]

InitPersist ==
    /\ pc = "record"
    /\ quoteData \in {<<q>> : q \in PersistRecords}
    /\ microserviceData = <<>>
    /\ transformed = <<>>
    /\ IdleRoute
    /\ IdleMerge
    /\ IdlePage
    /\ IdleStore
    /\ IdleScript
    /\ IdleHandlers

\* Everything but the tables and the record read back
restOfPersist ==
    <<microserviceData, transformed, quoteData, routeVars, mergeVars, pageVars,
      concVars, scriptVars>>

\* The record is written, once
Persist ==
    /\ pc = "record"
    /\ db' = persist("request-1", quoteData[1])
    /\ pc' = "stored"
    /\ UNCHANGED <<restored, restOfPersist>>

\* The record is read back
Reconstruct ==
    /\ pc = "stored"
    /\ restored' = <<reconstruct("request-1", db)>>
    /\ pc' = "restored"
    /\ UNCHANGED <<db, restOfPersist>>

NextPersist == Persist \/ Reconstruct

SpecPersist == InitPersist /\ [][NextPersist]_vars

\* C16: writing a record into the schema and reading it back yields the
\* original value of every field: the four MoneyFields, every extras entry,
\* property, program, concessions, policies, sources.
C16_RoundTrip ==
    restored # <<>> => restored[1] = quoteData[1]

-----------------------------------------------------------------------------
(* The keys of the schema (setup_database.sql): inserts and deletes on the *)
(* five tables.  A row is its primary key id and its request_id.           *)

RequestIds == {"request-1", "request-2"}
RowIds == {"row-1", "row-2"}
NULL == nullS

\* Lines 26-107: the tables with a request_id
DependentTables ==
    {"hotel_quote_data", "hotel_properties", "hotel_concessions", "hotel_policies"}

InitDb ==
    /\ pc = "db"
    /\ db = [hotel_quote_requests |-> {},
             dependent |-> [t \in DependentTables |-> {}]]
    /\ restored = <<>>
    /\ microserviceData = <<>>
    /\ transformed = <<>>
    /\ quoteData = <<>>
    /\ IdleRoute
    /\ IdleMerge
    /\ IdlePage
    /\ IdleHandlers
    /\ IdleScript

restOfDb ==
    <<pc, restored, viewVars, routeVars, mergeVars, pageVars, concVars, scriptVars>>

\* Line 9: INSERT INTO hotel_quote_requests; id is the primary key
InsertRequest ==
    /\ \E id \in RequestIds \ db.hotel_quote_requests :
          db' = [db EXCEPT !.hotel_quote_requests = @ \cup {id}]
    /\ UNCHANGED restOfDb

\* Lines 27-28, 74-75, 90-91, 101-102: INSERT INTO a dependent table.  id is
\* the primary key; request_id REFERENCES hotel_quote_requests(id) and is not
\* declared NOT NULL: it is NULL or the id of a request row
InsertRow ==
    /\ \E t \in DependentTables :
          \E id \in RowIds \ {row.id : row \in db.dependent[t]} :
              \E request_id \in db.hotel_quote_requests \cup {NULL} :
                  db' = [db EXCEPT !.dependent[t] =
                            @ \cup {[id |-> id, request_id |-> request_id]}]
    /\ UNCHANGED restOfDb

\* DELETE FROM hotel_quote_requests; ON DELETE CASCADE (lines 28, 75, 91,
\* 102) deletes the rows that reference the request
DeleteRequest ==
    /\ \E id \in db.hotel_quote_requests :
          db' = [hotel_quote_requests |-> db.hotel_quote_requests \ {id},
                 dependent |->
                    [t \in DependentTables |->
                        {row \in db.dependent[t] : row.request_id # id}]]
    /\ UNCHANGED restOfDb

\* DELETE FROM a dependent table
DeleteRow ==
    /\ \E t \in DependentTables :
          \E row \in db.dependent[t] :
              db' = [db EXCEPT !.dependent[t] = @ \ {row}]
    /\ UNCHANGED restOfDb

NextDb == InsertRequest \/ InsertRow \/ DeleteRequest \/ DeleteRow

SpecDb == InitDb /\ [][NextDb]_vars

\* C17: after any sequence of inserts and deletes the schema permits, every
\* row of hotel_quote_data, hotel_properties, hotel_concessions and
\* hotel_policies is keyed by a request_id that identifies an existing
\* hotel_quote_requests row (so that no row outlives its request).
C17_RowsKeyedByRequest ==
    pc = "db" =>
        \A t \in DependentTables :
            \A row \in db.dependent[t] :
                row.request_id \in db.hotel_quote_requests

-----------------------------------------------------------------------------
(* Claims about the submission of the page, checked under SpecPage and,    *)
(* for what eventually happens, under FairSpecPage                         *)

\* The promise of the fetch of line 269 settles and handleSubmit resumes
FairSpecPage ==
    SpecPage /\ WF_vars(ResponseSuccess \/ ResponseFailure \/ PageFetchThrows)

\* A submission was made and none is in flight
SubmissionEnded == page.sent # <<>> /\ page.inFlight = 0

\* C21: every submission eventually ends with isLoading = false, whether it
\* succeeded, was answered with a failure or threw; and once it has ended
\* exactly one of quoteData and error is non-null: quoteData with error null,
\* or a non-empty error message with quoteData null.
C21_SubmissionCompletes ==
    /\ (page.inFlight > 0) ~> (page.inFlight = 0 /\ ~page.isLoading)
    /\ [](SubmissionEnded
             => /\ ~page.isLoading
                /\ \/ (quoteData # <<>> /\ page.error = nullS)
                   \/ (quoteData = <<>> /\ TruthyS(page.error)))

\* After a submission that succeeded and was copied, a later one threw and
\* ended with the error alone
C21_Witness ==
    /\ page # <<>>
    /\ SubmissionEnded
    /\ page.op = "response"
    /\ ~page.isLoading
    /\ page.clipboard # <<>>
    /\ quoteData = <<>>
    /\ page.error = "Failed to fetch"

\* C22: in every state where isLoading is true, quoteData is null, error is
\* null and urls and sources are empty; and at most one submission is in
\* flight at any time, isLoading being true exactly while one is.
C22_NoStaleNoOverlap ==
    pc = "page" =>
        /\ page.isLoading
              => /\ quoteData = <<>>
                 /\ page.error = nullS
                 /\ page.urls = <<>>
                 /\ page.sources = <<>>
        /\ page.inFlight <= 1
        /\ page.isLoading <=> page.inFlight = 1

\* A submission is in flight after an earlier one had shown a record with
\* its sources: nothing of it is left
C22_Witness ==
    /\ page # <<>>
    /\ page.isLoading
    /\ page.inFlight = 1
    /\ page.clipboard # <<>>
    /\ page.clipboard[2].sources # <<>>
    /\ quoteData = <<>>
    /\ page.sources = <<>>
    /\ page.view = <<>>

\* C23: whenever the submit control is enabled and the form is submitted, the
\* request sent to /api/process contains at least one of email_content,
\* email_file, proposal_file, proposal_url, for every value of the text
\* inputs, text made only of whitespace included.
C23_SubmissionCarriesInput ==
    (pc = "page" /\ page.sent # <<>>) => ~NoneOfFour(page.sent[1])

-----------------------------------------------------------------------------
(* Claims about the forwarded form, checked under Spec *)

\* C24: whenever the handler calls the microservice, the form it forwards
\* contains at least one of email_content, email_file, proposal_file,
\* proposal_url, for every combination of the five incoming fields.
C24_ForwardedFormNotEmpty ==
    calls > 0 =>
        /\ microserviceFormData # <<>>
        /\ \E k \in {"email_content", "email_file", "proposal_file", "proposal_url"} :
              microserviceFormData[1][k] # <<>>

\* A request with a legacy PDF upload alone is being fetched with the upload
\* as its proposal_file
C24_Witness ==
    /\ pc = "fetching"
    /\ calls = 1
    /\ NoneOfFour(formData[1])
    /\ formData[1].file = "application/pdf"
    /\ microserviceFormData[1].proposal_file = <<"application/pdf">>
    /\ microserviceFormData[1].email_file = <<>>

-----------------------------------------------------------------------------
(* Claims about the cards and the export, checked under SpecTransform *)

\* page.tsx lines 88-96: what a card shows for its value prop, the formatted
\* amount or a dash
getDisplayValue(value) ==
    IF value # null THEN <<"money", value>> ELSE <<"dash">>

\* The record has none of the components of the sum
NoComponent(q) ==
    /\ q.guestroom_total.value = null
    /\ q.meeting_room_total.value = null
    /\ q.fnb_total.value = null
    /\ q.extras.num["estimated_fnb_gross"] = null

\* C25: when total_quote has status explicit and a non-null value the Total
\* Quote card shows that value (the sum of the components only when the total
\* is not explicitly stated); a total_quote with status not_found and no
\* component is shown as a dash.
C25_ExplicitTotalShown ==
    quoteData # <<>> =>
        LET q == quoteData[1]
            shown == getDisplayValue(TotalQuoteCard(q).value)
        IN  /\ (q.total_quote.status = "explicit" /\ q.total_quote.value # null)
                  => shown = <<"money", q.total_quote.value>>
            /\ (q.total_quote.status = "not_found" /\ q.total_quote.value = null
                /\ NoComponent(q))
                  => shown = <<"dash">>

\* page.tsx lines 506-537: the value prop of the card of each total
CardValue(q, f) ==
    CASE f = "total_quote" -> getCalculatedTotalQuote(q)
      [] f = "guestroom_total" -> q.guestroom_total.value
      [] f = "meeting_room_total" -> q.meeting_room_total.value
      [] f = "fnb_total" -> OrNum(q.extras.num["estimated_fnb_gross"],
                                   q.fnb_total.value)

\* The row of the CSV for each total
CsvRowOf(f) ==
    CASE f = "total_quote" -> 2
      [] f = "guestroom_total" -> 3
      [] f = "meeting_room_total" -> 4
      [] f = "fnb_total" -> 5

\* The Value cell c of the CSV tells the amount the card shows as d
SameAmount(c, d) ==
    IF d = <<"dash">> THEN c = "" ELSE c = ToString(d[2])

\* C26: for every record the value exported by Download CSV for each of the
\* four totals equals the value shown on its card, and the CSV has one header
\* row Field, Value, Status, Notes and four data rows.
C26_CsvMatchesCards ==
    quoteData # <<>> =>
        LET q == quoteData[1]
            rows == CsvRows(q)
        IN  /\ Len(rows) = 5
            /\ rows[1] = <<"Field", "Value", "Status", "Notes">>
            /\ \A i \in 1..5 : Len(rows[i]) = 4
            /\ \A f \in MoneyNames :
                  SameAmount(rows[CsvRowOf(f)][2],
                             getDisplayValue(CardValue(q, f)))

\* C27: for every extras key, if the payload carries a value for it the
\* transformed record carries the same value, the number 0 included; only an
\* absent key becomes null (or [] for effective_value_offsets).
C27_ExtrasPassThrough ==
    transformed # <<>> =>
        LET d == microserviceData[1]
            from == IF isOldFormat(d) THEN d.extras ELSE d.flatExtras
            to == transformed[1].extras
        IN  /\ \A k \in NumExtras :
                  to.num[k] = IF from.num[k] = undefined THEN null
                              ELSE from.num[k]
            /\ to.proposal_url = IF from.proposal_url = undefinedS THEN nullS
                                 ELSE from.proposal_url
            /\ to.effective_value_offsets =
                  IF from.effective_value_offsets = undefinedL THEN <<>>
                  ELSE from.effective_value_offsets

-----------------------------------------------------------------------------
(* The startup script (start.sh, in setup_database.sql from line 130).  A  *)
(* step is one command of the script; a trapped signal is handled between  *)
(* two commands.                                                           *)

Services == {"microservice", "frontend"}

\* The shell before the first command, in an environment env
NewScript(env) ==
    [at |-> "python", env |-> env, key |-> env.keyExported, trapSet |-> FALSE,
     pending |-> FALSE, MICROSERVICE_PID |-> "", FRONTEND_PID |-> "",
     started |-> {}, healthy |-> {}, killed |-> {}, status |-> <<>>,
     reason |-> ""]

\* What the script finds: the tools, the variable in its environment, and
\* .env.local (absent, without the key, with it set, with it set to nothing)
Environments ==
    [python3 : BOOLEAN, node : BOOLEAN, keyExported : BOOLEAN,
     envLocal : {"absent", "no key", "key", "empty key"}]

InitScript ==
    /\ script \in {NewScript(env) : env \in Environments}
    /\ pc = "script"
    /\ microserviceData = <<>>
    /\ transformed = <<>>
    /\ quoteData = <<>>
    /\ IdleRoute
    /\ IdleMerge
    /\ IdlePage
    /\ IdleStore
    /\ IdleHandlers

restOfScript ==
    <<pc, routeVars, viewVars, mergeVars, pageVars, storeVars, concVars>>

\* The script ends with exit status st
Exited(s, st, why) == [s EXCEPT !.at = "exited", !.status = <<st>>, !.reason = why]

\* kill of the process ids pids; an unset variable names no process
Kill(s, pids) == [s EXCEPT !.killed = @ \cup (pids \ {""})]

\* The next command runs when no trapped signal is waiting
Runs(at) == script.at = at /\ ~script.pending

\* Lines 138-141
CheckPython ==
    /\ Runs("python")
    /\ script' = IF script.env.python3 THEN [script EXCEPT !.at = "node"]
                 ELSE Exited(script, 1, "missing tool")
    /\ UNCHANGED restOfScript

\* Lines 144-147
CheckNode ==
    /\ Runs("node")
    /\ script' = IF script.env.node THEN [script EXCEPT !.at = "env"]
                 ELSE Exited(script, 1, "missing tool")
    /\ UNCHANGED restOfScript

\* Lines 150-153: the variables of .env.local are exported
LoadEnv ==
    /\ Runs("env")
    /\ script' = [script EXCEPT
                    !.at = "key",
                    !.key = CASE script.env.envLocal = "key" -> TRUE
                              [] script.env.envLocal = "empty key" -> FALSE
                              [] OTHER -> @]
    /\ UNCHANGED restOfScript

\* Lines 156-162
CheckKey ==
    /\ Runs("key")
    /\ script' = IF script.key THEN [script EXCEPT !.at = "trap"]
                 ELSE Exited(script, 1, "no key")
    /\ UNCHANGED restOfScript

\* Line 174: trap cleanup SIGINT SIGTERM
SetTrap ==
    /\ Runs("trap")
    /\ script' = [script EXCEPT !.at = "start microservice", !.trapSet = TRUE]
    /\ UNCHANGED restOfScript

\* Lines 178-179: python3 main.py &
StartMicroservice ==
    /\ Runs("start microservice")
    /\ script' = [script EXCEPT !.at = "microservice pid",
                                !.started = @ \cup {"microservice"}]
    /\ UNCHANGED restOfScript

\* Line 180: MICROSERVICE_PID=$!
SetMicroservicePid ==
    /\ Runs("microservice pid")
    /\ script' = [script EXCEPT !.at = "sleep 3",
                                !.MICROSERVICE_PID = "microservice"]
    /\ UNCHANGED restOfScript

\* Lines 181-184: sleep 3
SleepMicroservice ==
    /\ Runs("sleep 3")
    /\ script' = [script EXCEPT !.at = "microservice health"]
    /\ UNCHANGED restOfScript

\* Line 187: the health check of the microservice succeeds
MicroserviceHealthy ==
    /\ Runs("microservice health")
    /\ script' = [script EXCEPT !.at = "start frontend",
                                !.healthy = @ \cup {"microservice"}]
    /\ UNCHANGED restOfScript

\* Lines 187-191: the health check fails
MicroserviceUnhealthy ==
    /\ Runs("microservice health")
    /\ script' = Exited(Kill(script, {script.MICROSERVICE_PID}), 1,
                        "microservice check")
    /\ UNCHANGED restOfScript

\* Lines 196-197: npm run dev &
StartFrontend ==
    /\ Runs("start frontend")
    /\ script' = [script EXCEPT !.at = "frontend pid",
                                !.started = @ \cup {"frontend"}]
    /\ UNCHANGED restOfScript

\* Line 198: FRONTEND_PID=$!
SetFrontendPid ==
    /\ Runs("frontend pid")
    /\ script' = [script EXCEPT !.at = "sleep 5", !.FRONTEND_PID = "frontend"]
    /\ UNCHANGED restOfScript

\* Line 201: sleep 5
SleepFrontend ==
    /\ Runs("sleep 5")
    /\ script' = [script EXCEPT !.at = "frontend health"]
    /\ UNCHANGED restOfScript

\* Line 204: the check of the frontend succeeds; line 219: wait
FrontendHealthy ==
    /\ Runs("frontend health")
    /\ script' = [script EXCEPT !.at = "wait",
                                !.healthy = @ \cup {"frontend"}]
    /\ UNCHANGED restOfScript

\* Lines 204-208: the check fails
FrontendUnhealthy ==
    /\ Runs("frontend health")
    /\ script' = Exited(Kill(script, {script.FRONTEND_PID,
                                      script.MICROSERVICE_PID}), 1,
                        "frontend check")
    /\ UNCHANGED restOfScript

\* Line 219: both services have ended by themselves and wait returns
WaitReturns ==
    /\ Runs("wait")
    /\ script' = Exited(script, 0, "services ended")
    /\ UNCHANGED restOfScript

\* SIGINT or SIGTERM arrives: it ends a shell that has set no trap (status
\* 128 + the signal's number), and waits for the running command to end in
\* one that has
Signal ==
    /\ script.at # "exited"
    /\ ~script.pending
    /\ \E signum \in {2, 15} :
          script' = IF script.trapSet THEN [script EXCEPT !.pending = TRUE]
                    ELSE Exited(script, 128 + signum, "signal")
    /\ UNCHANGED restOfScript

\* Lines 167-171: the trap runs cleanup once the running command has ended
Cleanup ==
    /\ script.at # "exited"
    /\ script.pending
    /\ script' = Exited(Kill(script, {script.FRONTEND_PID,
                                      script.MICROSERVICE_PID}), 0, "signal")
    /\ UNCHANGED restOfScript

NextScript ==
    \/ CheckPython
    \/ CheckNode
    \/ LoadEnv
    \/ CheckKey
    \/ SetTrap
    \/ StartMicroservice
    \/ SetMicroservicePid
    \/ SleepMicroservice
    \/ MicroserviceHealthy
    \/ MicroserviceUnhealthy
    \/ StartFrontend
    \/ SetFrontendPid
    \/ SleepFrontend
    \/ FrontendHealthy
    \/ FrontendUnhealthy
    \/ WaitReturns
    \/ Signal
    \/ Cleanup

SpecScript == InitScript /\ [][NextScript]_vars

\* C28: no service is started unless OPENAI_API_KEY is set; the frontend is
\* started only after the health check of the microservice has succeeded; and
\* whenever the script exits after starting a service, on a failed health
\* check or on SIGINT/SIGTERM at any point, a kill has been issued to every
\* service process it started, with exit status 1 on a failed check.
C28_OrderedStartAndCleanup ==
    script # <<>> =>
        /\ script.started # {} => script.key
        /\ "frontend" \in script.started => "microservice" \in script.healthy
        /\ (/\ script.at = "exited"
            /\ script.started # {}
            /\ script.reason \in {"microservice check", "frontend check", "signal"})
              => script.started \subseteq script.killed
        /\ (script.at = "exited"
            /\ script.reason \in {"microservice check", "frontend check"})
              => script.status = <<1>>

====
